---------------------------- MODULE Spec2Model ----------------------------
(***************************************************************************)
(* MaidSafe transport: the UDT acceptor (UdtAcceptor) and the UDT          *)
(* connection state machine (UdtConnection), both modelled from            *)
(* src/src/maidsafe-dht/transport/udt_acceptor.cc.                         *)
(*                                                                         *)
(* The specifications sharing the module:                                  *)
(*   SpecAcceptor         the acceptor's StartAccept / HandleReceiveFrom / *)
(*                        Close over one multiplexer, call by call;        *)
(*   SpecAcceptorThreads  StartAccept and HandleReceiveFrom on two         *)
(*                        threads, access by access;                       *)
(*   SpecConnection       one connection, its strand, timer, socket and    *)
(*                        the owning transport's callbacks;                *)
(*   SpecConnectionFair   the same with completions delivered.             *)
(* Each leaves the other component's variables untouched.                  *)
(***************************************************************************)
EXTENDS Integers, Sequences, FiniteSets, TLC

(***************************************************************************)
(* Bounds of the acceptor model.                                           *)
(***************************************************************************)
MaxSockets == 3
MaxArrivals == 3
NumRemoteIds == 2
NumEndpoints == 2
MaxInvalid == 1

Sockets == 1 .. MaxSockets
RemoteIds == 1 .. NumRemoteIds
Endpoints == 1 .. NumEndpoints
\* ids the dispatcher can hand out; 0 is "no id"
DispatcherIds == 1 .. MaxSockets

VARIABLES
  \* ---- UdtAcceptor ----
  waiting_accept_socket_,  \* UdtSocket* : 0 or the socket parked by StartAccept
  pending_requests_,       \* std::deque<PendingRequest>
  socket,                  \* the UdtSocket objects: remote_id_, remote_endpoint_, id_
  accept_state,            \* per socket: the accept operation issued for it
  dispatcher_sockets,      \* multiplexer_.dispatcher_: id -> socket
  dispatcher_acceptor,     \* multiplexer_.dispatcher_: TRUE iff this acceptor is registered
  acceptor_assert_failed,  \* the assert of StartAccept has fired (the process aborted)
  \* ---- observation of the acceptor's calls ----
  arrivals,                \* the valid handshakes, in arrival order
  completed,               \* the sockets whose accept completed bound, in completion order
  nStartAccept,            \* number of StartAccept calls issued
  nInvalid,                \* number of datagrams that did not decode
  close_called,            \* Close() has been called
  arrival_after_accept,    \* a valid handshake arrived after some StartAccept call
  overlapping_accept       \* a StartAccept was issued while an accept was outstanding

acceptor_vars == <<waiting_accept_socket_, pending_requests_, socket, accept_state,
                   dispatcher_sockets, dispatcher_acceptor, acceptor_assert_failed,
                   arrivals, completed, nStartAccept, nInvalid, close_called,
                   arrival_after_accept, overlapping_accept>>

\* A freshly constructed UdtSocket: no remote, no id.
NewSocket == [remote_id_ |-> 0, remote_endpoint_ |-> 0, id_ |-> 0]

\* UdtAcceptor::UdtAcceptor: empty backlog, no waiting socket, registered with
\* the dispatcher.
AcceptorInit ==
  /\ waiting_accept_socket_ = 0
  /\ pending_requests_ = << >>
  /\ socket = [s \in Sockets |-> NewSocket]
  /\ accept_state = [s \in Sockets |-> "none"]
  /\ dispatcher_sockets = [i \in {} |-> 0]
  /\ dispatcher_acceptor = TRUE
  /\ acceptor_assert_failed = FALSE
  /\ arrivals = << >>
  /\ completed = << >>
  /\ nStartAccept = 0
  /\ nInvalid = 0
  /\ close_called = FALSE
  /\ arrival_after_accept = FALSE
  /\ overlapping_accept = FALSE

\* UdtAcceptor::IsOpen
IsOpen == dispatcher_acceptor

\* UdtDispatcher::AddSocket: the id a registration returns, one not in use
\* (the lowest, ids being interchangeable).
FreeIds == LET free == DispatcherIds \ DOMAIN dispatcher_sockets
           IN {i \in free : \A j \in free : i <= j}

\* UdtDispatcher::AddSocket(s) returning id.
AddSocket(id, s) == [i \in DOMAIN dispatcher_sockets \cup {id} |->
                       IF i = id THEN s ELSE dispatcher_sockets[i]]

\* waiting_accept_.cancel(): every accept operation suspended on the timer
\* completes; it completes bound when its socket was registered, cancelled
\* otherwise.  st and sk are the accept states and sockets at the call.
CancelWaitingAccept(st, sk) ==
  [s \in Sockets |-> IF st[s] = "suspended"
                       THEN (IF sk[s].id_ # 0 THEN "accepted" ELSE "cancelled")
                       ELSE st[s]]

\* The request StartAccept serves from a non-empty backlog
\* (pending_requests_.front()).
NextRequest_Back(q) == q[Len(q)]
NextRequest(q) == Head(q)

\* The backlog after StartAccept has served a request
\* (pending_requests_.pop_front()).
PopRequest_Keep(q) == q
PopRequest(q) == Tail(q)

\* Bind a socket to a remote and to its dispatcher id.
Bind(s, rid, rep, id) ==
  [socket EXCEPT ![s] = [remote_id_ |-> rid, remote_endpoint_ |-> rep, id_ |-> id]]

\* The sockets whose accept operation is suspended.
Suspended == {s \in Sockets : accept_state[s] = "suspended"}

\* The condition assert(waiting_accept_socket_ == 0) of StartAccept rejects.
AcceptOutstanding_Never == FALSE
AcceptOutstanding == waiting_accept_socket_ # 0

\* The accept of socket s completed bound in this step.
Completes(s) == completed' = IF accept_state'[s] = "accepted" /\ accept_state[s] # "accepted"
                               THEN Append(completed, s) ELSE completed

\* UdtAcceptor::StartAccept(socket), the assertion failing: the process aborts
\* with the acceptor as it was.
StartAcceptRejected(s) ==
  /\ acceptor_assert_failed' = TRUE
  /\ UNCHANGED <<waiting_accept_socket_, pending_requests_, socket, accept_state,
                 dispatcher_sockets, completed>>

\* UdtAcceptor::StartAccept(socket), the backlog non-empty: the oldest request
\* is bound to the socket, which is registered; the accept completes at once.
StartAcceptFromBacklog(s) ==
  \E id \in FreeIds :
    LET req == NextRequest(pending_requests_)
        sk == Bind(s, req.remote_id, req.remote_endpoint, id)
    IN /\ socket' = sk
       /\ dispatcher_sockets' = AddSocket(id, s)
       /\ pending_requests_' = PopRequest(pending_requests_)
       /\ accept_state' = CancelWaitingAccept(
                            [accept_state EXCEPT ![s] = "suspended"], sk)
       /\ Completes(s)
       /\ UNCHANGED <<waiting_accept_socket_, acceptor_assert_failed>>

\* UdtAcceptor::StartAccept(socket), the backlog empty: the socket is parked.
StartAcceptPark(s) ==
  /\ waiting_accept_socket_' = s
  /\ accept_state' = [accept_state EXCEPT ![s] = "suspended"]
  /\ UNCHANGED <<pending_requests_, socket, dispatcher_sockets, completed,
                 acceptor_assert_failed>>

\* UdtAcceptor::StartAccept(socket)
StartAccept(s) ==
  /\ ~acceptor_assert_failed
  /\ accept_state[s] = "none"
  /\ s = nStartAccept + 1              \* the caller's next fresh socket
  /\ nStartAccept' = nStartAccept + 1
  /\ overlapping_accept' = (overlapping_accept \/ Suspended # {})
  /\ IF AcceptOutstanding
       THEN StartAcceptRejected(s)
       ELSE IF pending_requests_ # << >>
              THEN StartAcceptFromBacklog(s)
              ELSE StartAcceptPark(s)
  /\ UNCHANGED <<dispatcher_acceptor, arrivals, nInvalid, close_called,
                 arrival_after_accept>>

\* UdtAcceptor::HandleReceiveFrom, the packet decoding and a socket waiting.
ReceiveForWaiting(rid, ep) ==
  \E id \in FreeIds :
    LET s == waiting_accept_socket_
        sk == Bind(s, rid, ep, id)
    IN /\ socket' = sk
       /\ dispatcher_sockets' = AddSocket(id, s)
       /\ waiting_accept_socket_' = 0
       /\ accept_state' = CancelWaitingAccept(accept_state, sk)
       /\ Completes(s)
       /\ UNCHANGED pending_requests_

\* UdtAcceptor::HandleReceiveFrom, the packet decoding and no socket waiting.
ReceiveQueue(rid, ep) ==
  /\ pending_requests_' = Append(pending_requests_,
                                 [remote_id |-> rid, remote_endpoint |-> ep])
  /\ UNCHANGED <<waiting_accept_socket_, socket, accept_state, dispatcher_sockets,
                 completed>>

\* The observation of a valid handshake's arrival.
NoteArrival(rid, ep) ==
  /\ Len(arrivals) < MaxArrivals
  /\ arrivals' = Append(arrivals, [remote_id |-> rid, remote_endpoint |-> ep])
  /\ arrival_after_accept' = (arrival_after_accept \/ nStartAccept > 0)
  /\ UNCHANGED <<nStartAccept, nInvalid, close_called, overlapping_accept>>

HandleReceiveFrom_AlwaysQueue(decodes, rid, ep) ==
  /\ ~acceptor_assert_failed
  /\ decodes
  /\ NoteArrival(rid, ep)
  /\ ReceiveQueue(rid, ep)
  /\ UNCHANGED <<dispatcher_acceptor, acceptor_assert_failed>>

\* HandleReceiveFrom queueing a request for a datagram that did not decode.
HandleReceiveFrom_QueueInvalid(decodes, rid, ep) ==
  /\ ~acceptor_assert_failed
  /\ IF decodes
       THEN /\ NoteArrival(rid, ep)
            /\ IF waiting_accept_socket_ # 0
                 THEN ReceiveForWaiting(rid, ep)
                 ELSE ReceiveQueue(rid, ep)
       ELSE /\ nInvalid < MaxInvalid
            /\ nInvalid' = nInvalid + 1
            /\ ReceiveQueue(rid, ep)
            /\ UNCHANGED <<arrivals, nStartAccept, close_called,
                           arrival_after_accept, overlapping_accept>>
  /\ UNCHANGED <<dispatcher_acceptor, acceptor_assert_failed>>

\* UdtAcceptor::HandleReceiveFrom(data, endpoint); decodes is packet.Decode(data),
\* rid the decoded packet.SocketId().
HandleReceiveFrom(decodes, rid, ep) ==
  /\ ~acceptor_assert_failed
  /\ IF decodes
       THEN /\ NoteArrival(rid, ep)
            /\ IF waiting_accept_socket_ # 0
                 THEN ReceiveForWaiting(rid, ep)
                 ELSE ReceiveQueue(rid, ep)
       ELSE /\ nInvalid < MaxInvalid
            /\ nInvalid' = nInvalid + 1
            /\ UNCHANGED <<waiting_accept_socket_, pending_requests_, socket,
                           accept_state, dispatcher_sockets, completed, arrivals,
                           nStartAccept, close_called, arrival_after_accept,
                           overlapping_accept>>
  /\ UNCHANGED <<dispatcher_acceptor, acceptor_assert_failed>>

\* UdtAcceptor::Close()
Close ==
  /\ ~acceptor_assert_failed
  /\ pending_requests_' = << >>
  /\ accept_state' = CancelWaitingAccept(accept_state, socket)
  /\ dispatcher_acceptor' = FALSE
  /\ close_called' = TRUE
  /\ UNCHANGED <<waiting_accept_socket_, socket, dispatcher_sockets,
                 acceptor_assert_failed, arrivals, completed, nStartAccept, nInvalid,
                 arrival_after_accept, overlapping_accept>>



(***************************************************************************)
(* UdtAcceptor called from two worker threads.                             *)
(*                                                                         *)
(* The acceptor has no lock of its own.  Here StartAccept runs on the      *)
(* accepting side's thread and HandleReceiveFrom on the multiplexer's      *)
(* receive thread, each advancing one access of waiting_accept_socket_ or  *)
(* pending_requests_ at a time (every single access taken as atomic).      *)
(***************************************************************************)
VARIABLES
  accept_thread,   \* StartAccept's position and its parameter `socket'
  receive_thread   \* HandleReceiveFrom's position, its packet and its local `socket'

thread_vars == <<accept_thread, receive_thread>>

\* Both threads outside the acceptor.
ThreadInit ==
  /\ accept_thread = [pc |-> "idle", socket |-> 0]
  /\ receive_thread = [pc |-> "idle", remote_id |-> 0, remote_endpoint |-> 0,
                       socket |-> 0]

\* StartAccept(socket) entered: the assertion reads waiting_accept_socket_.
AcceptEnter(s) ==
  /\ ~acceptor_assert_failed
  /\ accept_thread.pc = "idle"
  /\ accept_state[s] = "none"
  /\ s = nStartAccept + 1
  /\ nStartAccept' = nStartAccept + 1
  /\ overlapping_accept' = (overlapping_accept \/ Suspended # {})
  /\ IF AcceptOutstanding
       THEN acceptor_assert_failed' = TRUE /\ UNCHANGED accept_thread
       ELSE /\ accept_thread' = [pc |-> "test", socket |-> s]
            /\ UNCHANGED acceptor_assert_failed
  /\ UNCHANGED <<waiting_accept_socket_, pending_requests_, socket, accept_state,
                 dispatcher_sockets, dispatcher_acceptor, arrivals, completed,
                 nInvalid, close_called, arrival_after_accept, receive_thread>>

\* StartAccept: the test !pending_requests_.empty().
AcceptTestBacklog ==
  /\ accept_thread.pc = "test"
  /\ accept_thread' = [accept_thread EXCEPT
                         !.pc = IF pending_requests_ # << >> THEN "serve" ELSE "park"]
  /\ UNCHANGED <<acceptor_vars, receive_thread>>

\* StartAccept: the branch serving the oldest request.
AcceptServe ==
  /\ accept_thread.pc = "serve"
  /\ StartAcceptFromBacklog(accept_thread.socket)
  /\ accept_thread' = [pc |-> "idle", socket |-> 0]
  /\ UNCHANGED <<dispatcher_acceptor, arrivals, nStartAccept, nInvalid,
                 close_called, arrival_after_accept, overlapping_accept,
                 receive_thread>>

\* StartAccept: the branch parking the socket.
AcceptPark ==
  /\ accept_thread.pc = "park"
  /\ StartAcceptPark(accept_thread.socket)
  /\ accept_thread' = [pc |-> "idle", socket |-> 0]
  /\ UNCHANGED <<dispatcher_acceptor, arrivals, nStartAccept, nInvalid,
                 close_called, arrival_after_accept, overlapping_accept,
                 receive_thread>>

\* HandleReceiveFrom entered: the packet is decoded and, if it decodes,
\* waiting_accept_socket_ is read into the local `socket'.
ReceiveEnter(decodes, rid, ep) ==
  /\ ~acceptor_assert_failed
  /\ receive_thread.pc = "idle"
  /\ IF decodes
       THEN /\ NoteArrival(rid, ep)
            /\ receive_thread' =
                 [pc |-> IF waiting_accept_socket_ # 0 THEN "bind" ELSE "queue",
                  remote_id |-> rid, remote_endpoint |-> ep,
                  socket |-> waiting_accept_socket_]
       ELSE /\ nInvalid < MaxInvalid
            /\ nInvalid' = nInvalid + 1
            /\ UNCHANGED <<arrivals, nStartAccept, close_called,
                           arrival_after_accept, overlapping_accept,
                           receive_thread>>
  /\ UNCHANGED <<waiting_accept_socket_, pending_requests_, socket, accept_state,
                 dispatcher_sockets, dispatcher_acceptor, acceptor_assert_failed,
                 completed, accept_thread>>

\* HandleReceiveFrom: the branch binding the waiting socket.
ReceiveBind ==
  /\ receive_thread.pc = "bind"
  /\ \E id \in FreeIds :
       LET s == receive_thread.socket
           sk == Bind(s, receive_thread.remote_id, receive_thread.remote_endpoint, id)
       IN /\ socket' = sk
          /\ dispatcher_sockets' = AddSocket(id, s)
          /\ waiting_accept_socket_' = 0
          /\ accept_state' = CancelWaitingAccept(accept_state, sk)
          /\ Completes(s)
  /\ receive_thread' = [pc |-> "idle", remote_id |-> 0, remote_endpoint |-> 0,
                        socket |-> 0]
  /\ UNCHANGED <<pending_requests_, dispatcher_acceptor, acceptor_assert_failed,
                 arrivals, nStartAccept, nInvalid, close_called,
                 arrival_after_accept, overlapping_accept, accept_thread>>

\* HandleReceiveFrom: the branch queueing the request.
ReceivePush ==
  /\ receive_thread.pc = "queue"
  /\ ReceiveQueue(receive_thread.remote_id, receive_thread.remote_endpoint)
  /\ receive_thread' = [pc |-> "idle", remote_id |-> 0, remote_endpoint |-> 0,
                        socket |-> 0]
  /\ UNCHANGED <<dispatcher_acceptor, acceptor_assert_failed, arrivals,
                 nStartAccept, nInvalid, close_called, arrival_after_accept,
                 overlapping_accept, accept_thread>>

(***************************************************************************)
(* UdtConnection.                                                          *)
(*                                                                         *)
(* Time is discrete.  The code reads the clock only to set a deadline      *)
(* (now + timeout) and to compare the timer's expiry with it, so the model *)
(* keeps the clock's origin at the present: `now' stays 0 and a tick moves *)
(* every stored point in time one unit towards the past (a point in the    *)
(* past stays at `now': only "expiry <= now" is ever asked of it).         *)
(*                                                                         *)
(* The configuration constants come from the transport's header, which is  *)
(* outside the modelled file; they are scaled down so that a payload needs *)
(* several chunks and both deadlines can be the earlier one.               *)
(***************************************************************************)
kMaxTransportMessageSize == 3
kMaxTransportChunkSize == 2
kDefaultInitialTimeout == 3
kStallTimeout == 2
kMinTimeout == 1
\* kTimeoutFactor, a fraction of a time unit per byte: 1 / kTimeoutFactorInverse
kTimeoutFactorInverse == 8
kImmediateTimeout == 0
\* boost::posix_time::pos_infin
PosInfin == 1000

\* Bounds of the connection model.
MaxFrames == 1
MaxCloseCalls == 1

\* sizeof(DataSize)
DataSizeBytes == 4

\* TransportCondition values passed to on_error
kMessageSizeTooLarge == "kMessageSizeTooLarge"
kSendTimeout == "kSendTimeout"
kSendFailure == "kSendFailure"
kReceiveTimeout == "kReceiveTimeout"
kReceiveFailure == "kReceiveFailure"

Min(a, b) == IF a <= b THEN a ELSE b
Max(a, b) == IF a >= b THEN a ELSE b

\* The payloads the model uses: one per length, bytes 201, 202, ...
PayloadOfLen(n) == [i \in 1 .. n |-> 200 + i]
\* Payloads the application hands over: empty, at the limit, over the limit.
AppPayloads == {PayloadOfLen(n) : n \in {0, kMaxTransportMessageSize,
                                         kMaxTransportMessageSize + 1}}
\* Data the owner gives to StartSending: at the limit, over the limit.
SendPayloads == {PayloadOfLen(n) : n \in {kMaxTransportMessageSize,
                                          kMaxTransportMessageSize + 1}}
\* Payloads the peer frames and sends (the peer respects the limit).
PeerPayloads == {PayloadOfLen(n) : n \in {0, 1, kMaxTransportMessageSize}}
\* Response-timeout policies handed to StartSending / returned by the handler.
\* none expected, one shorter and one longer than the stall timeout.
Timeouts == {kImmediateTimeout, kMinTimeout, kDefaultInitialTimeout}

VARIABLES
  now,                   \* asio::deadline_timer::traits_type::now()
  \* ---- UdtConnection's members ----
  socket_open,           \* socket_.IsOpen()
  pending_op,            \* the asynchronous operation outstanding on socket_
  timer_expiry,          \* timer_.expires_at()
  timer_waits,           \* timer_.async_wait(CheckTimeout) calls outstanding
  check_ready,           \* CheckTimeout handlers released by a cancelled wait
  response_deadline_,
  timeout_for_response_,
  buffer_,
  data_size_,
  data_received_,
  strand,                \* functions handed to strand_.dispatch, not yet run
  dispatch,              \* DispatchMessage: "none", "posted", "in_handler"
  conn_assert_failed,    \* an assert(socket_.IsOpen()) has fired
  \* ---- the owning UdtTransport ----
  transport_alive,       \* transport_.lock() succeeds
  in_transport,          \* the connection is in the transport's active set
  errors,                \* the conditions passed to on_error, in order
  delivered,             \* the payloads passed to on_message_received
  \* ---- the socket's peer and the owner ----
  role,                  \* "client" (StartSending) or "server" (StartReceiving)
  started,               \* StartSending / StartReceiving has been called
  inbound,               \* bytes sent by the peer and not yet read
  written,               \* the buffers handed to socket_.AsyncWrite, in order
  \* ---- observation ----
  obs

conn_vars == <<now, socket_open, pending_op, timer_expiry, timer_waits, check_ready,
               response_deadline_, timeout_for_response_, buffer_, data_size_,
               data_received_, strand, dispatch, conn_assert_failed,
               transport_alive, in_transport, errors, delivered, role, started,
               inbound, written, obs>>

vars == <<acceptor_vars, thread_vars, conn_vars>>

\* The connection, its transport and its peer as one record; the operators
\* below are the member functions, mapping the record before to the record after.
World ==
  [socket_open |-> socket_open, pending_op |-> pending_op,
   timer_expiry |-> timer_expiry, timer_waits |-> timer_waits,
   check_ready |-> check_ready, response_deadline_ |-> response_deadline_,
   timeout_for_response_ |-> timeout_for_response_, buffer_ |-> buffer_,
   data_size_ |-> data_size_, data_received_ |-> data_received_,
   strand |-> strand, dispatch |-> dispatch,
   conn_assert_failed |-> conn_assert_failed,
   transport_alive |-> transport_alive, in_transport |-> in_transport,
   errors |-> errors, delivered |-> delivered, role |-> role, started |-> started,
   inbound |-> inbound, written |-> written, obs |-> obs]

Apply(w) ==
  /\ socket_open' = w.socket_open
  /\ pending_op' = w.pending_op
  /\ timer_expiry' = w.timer_expiry
  /\ timer_waits' = w.timer_waits
  /\ check_ready' = w.check_ready
  /\ response_deadline_' = w.response_deadline_
  /\ timeout_for_response_' = w.timeout_for_response_
  /\ buffer_' = w.buffer_
  /\ data_size_' = w.data_size_
  /\ data_received_' = w.data_received_
  /\ strand' = w.strand
  /\ dispatch' = w.dispatch
  /\ conn_assert_failed' = w.conn_assert_failed
  /\ transport_alive' = w.transport_alive
  /\ in_transport' = w.in_transport
  /\ errors' = w.errors
  /\ delivered' = w.delivered
  /\ role' = w.role
  /\ started' = w.started
  /\ inbound' = w.inbound
  /\ written' = w.written
  /\ obs' = w.obs

\* What the properties observe of a run, beside the program's own state.
ObsInit ==
  [connects |-> 0,            \* socket_.AsyncConnect calls
   reads |-> 0,               \* socket_.AsyncRead calls
   stall_deadline |-> 0,      \* time of the last read step + kStallTimeout
   size_deadline |-> 0,       \* time of the last StartReadSize + the response timeout
   timeout_close |-> << >>,   \* CheckTimeout's closes: the operation pending
   rejected |-> << >>,        \* EncodeData's rejections: the I/O issued before
   on_error_marks |-> << >>,  \* the I/O issued before each on_error
   empty_response |-> << >>,  \* handler returns with an empty response
   write_ok |-> << >>,        \* HandleWrite calls past both error tests
   sent |-> << >>,            \* the payloads the peer framed
   send_data |-> << >>,       \* the data given to StartSending
   close_calls |-> 0]         \* the owner's Close() calls

\* UdtConnection::UdtConnection; the transport has put the connection in its
\* active set.  A server connection's socket has been accepted (open), a
\* client's is opened by the connect.
ConnInit ==
  /\ now = 0
  /\ role \in {"client", "server"}
  /\ socket_open = (role = "server")
  /\ pending_op = "none"
  /\ timer_expiry = 0
  /\ timer_waits = 0
  /\ check_ready = 0
  /\ response_deadline_ = 0
  /\ timeout_for_response_ = kDefaultInitialTimeout
  /\ buffer_ = << >>
  /\ data_size_ = 0
  /\ data_received_ = 0
  /\ strand = [f \in {"DoClose", "DoStartReceiving", "DoStartSending",
                      "StartWrite"} |-> 0]
  /\ dispatch = "none"
  /\ conn_assert_failed = FALSE
  /\ transport_alive = TRUE
  /\ in_transport = TRUE
  /\ errors = << >>
  /\ delivered = << >>
  /\ started = FALSE
  /\ inbound = << >>
  /\ written = << >>
  /\ obs = ObsInit

\* The I/O issued so far on the socket.
IoMark(w) == [connects |-> w.obs.connects, reads |-> w.obs.reads,
              writes |-> Len(w.written)]

\* std::vector::resize
Resize(buf, n) == [i \in 1 .. n |-> IF i <= Len(buf) THEN buf[i] ELSE 0]

\* timer_.expires_at / expires_from_now: the outstanding waits are cancelled
\* (their handler, CheckTimeout, is released) and the expiry is set.
SetExpiry(w, t) ==
  [w EXCEPT !.timer_expiry = t,
            !.check_ready = @ + w.timer_waits,
            !.timer_waits = 0]

\* timer_.cancel()
CancelTimer(w) ==
  [w EXCEPT !.check_ready = @ + w.timer_waits, !.timer_waits = 0]

\* (*transport->on_error_)(error), under transport_.lock()
OnError(w, e) ==
  IF w.transport_alive
    THEN [w EXCEPT !.errors = Append(@, e),
                   !.obs.on_error_marks = Append(@, IoMark(w))]
    ELSE w

\* UdtConnection::DoClose
DoClose(w) ==
  LET w1 == CancelTimer([w EXCEPT !.socket_open = FALSE])
  IN IF w1.transport_alive THEN [w1 EXCEPT !.in_transport = FALSE] ELSE w1

\* UdtConnection::CloseOnError
CloseOnError(w, e) == DoClose(OnError(w, e))

\* CheckTimeout not going back to sleep when the deadline is still ahead.
CheckTimeout_NoRearm(w, t) ==
  IF ~w.socket_open
    THEN w
    ELSE IF w.timer_expiry <= t
           THEN [w EXCEPT !.socket_open = FALSE,
                          !.obs.timeout_close = Append(@, w.pending_op)]
           ELSE w

\* UdtConnection::CheckTimeout at time t
CheckTimeout(w, t) ==
  IF ~w.socket_open
    THEN w
    ELSE IF w.timer_expiry <= t
           THEN [w EXCEPT !.socket_open = FALSE,
                          !.obs.timeout_close = Append(@, w.pending_op)]
           ELSE [w EXCEPT !.timer_waits = @ + 1]

\* The deadline StartReadSize and StartReadData give the timer.
ReadDeadline_StallOnly(w, t) == t + kStallTimeout
ReadDeadline(w, t) == Min(w.response_deadline_, t + kStallTimeout)

\* UdtConnection::StartReadSize at time t
StartReadSize(w, t) ==
  IF ~w.socket_open
    THEN [w EXCEPT !.conn_assert_failed = TRUE]
    ELSE LET w1 == [w EXCEPT !.buffer_ = Resize(@, DataSizeBytes),
                             !.pending_op = "read_size",
                             !.response_deadline_ = t + w.timeout_for_response_,
                             !.obs.reads = @ + 1,
                             !.obs.size_deadline = t + w.timeout_for_response_,
                             !.obs.stall_deadline = t + kStallTimeout]
         IN SetExpiry(w1, ReadDeadline(w1, t))

\* StartReadData sizing the buffer for the whole message.
StartReadData_WholeMessage(w, t) ==
  IF ~w.socket_open
    THEN [w EXCEPT !.conn_assert_failed = TRUE]
    ELSE LET buffer_size == w.data_size_
             w1 == [w EXCEPT !.buffer_ = Resize(@, buffer_size),
                             !.pending_op = "read_data",
                             !.obs.reads = @ + 1,
                             !.obs.stall_deadline = t + kStallTimeout]
         IN SetExpiry(w1, ReadDeadline(w1, t))

\* UdtConnection::StartReadData at time t
StartReadData(w, t) ==
  IF ~w.socket_open
    THEN [w EXCEPT !.conn_assert_failed = TRUE]
    ELSE LET buffer_size == w.data_received_
                              + Min(kMaxTransportChunkSize,
                                    w.data_size_ - w.data_received_)
             w1 == [w EXCEPT !.buffer_ = Resize(@, buffer_size),
                             !.pending_op = "read_data",
                             !.obs.reads = @ + 1,
                             !.obs.stall_deadline = t + kStallTimeout]
         IN SetExpiry(w1, ReadDeadline(w1, t))

\* The length header EncodeData writes: msg_size >> (8 * (3 - i)), i = 0..3,
\* each cast to a byte.
EncodeSize_LittleEndian(n) == [i \in 1 .. DataSizeBytes |-> (n \div 2 ^ (8 * (i - 1))) % 256]
EncodeSize(n) == [i \in 1 .. DataSizeBytes |-> (n \div 2 ^ (8 * (DataSizeBytes - i))) % 256]

\* The DataSize HandleReadSize computes from buffer_.at(0..3).
\* (Sizes in the model stay below 2^31, where DataSize's 32-bit arithmetic is exact.)
DecodeSize_LittleEndian(b) == ((b[4] * 256 + b[3]) * 256 + b[2]) * 256 + b[1]
DecodeSize(b) == ((b[1] * 256 + b[2]) * 256 + b[3]) * 256 + b[4]

\* The buffer EncodeData builds for a message within the limit.
EncodeFrame(data) == EncodeSize(Len(data)) \o data

\* UdtConnection::EncodeData
EncodeData(w, data) ==
  LET msg_size == Len(data)
  IN IF msg_size > kMaxTransportMessageSize
       THEN OnError([w EXCEPT !.obs.rejected = Append(@, IoMark(w))],
                    kMessageSizeTooLarge)
       ELSE [w EXCEPT !.buffer_ = EncodeFrame(data)]

\* UdtConnection::StartConnect at time t; the connect opens the socket.
StartConnect(w, t) ==
  SetExpiry([w EXCEPT !.socket_open = TRUE,
                      !.pending_op = "connect",
                      !.obs.connects = @ + 1],
            t + kDefaultInitialTimeout)

\* The timeout StartWrite computes for buffer_.
WriteTimeout(w) == Max(Len(w.buffer_) \div kTimeoutFactorInverse, kMinTimeout)

\* UdtConnection::StartWrite at time t
StartWrite(w, t) ==
  IF ~w.socket_open
    THEN [w EXCEPT !.conn_assert_failed = TRUE]
    ELSE SetExpiry([w EXCEPT !.pending_op = "write",
                             !.written = Append(@, w.buffer_)],
                   t + WriteTimeout(w))

\* HandleConnect testing the error code before the socket.
HandleConnect_ErrorFirst(w, t, ec) ==
  LET w0 == [w EXCEPT !.pending_op = "none"]
  IN IF ec THEN CloseOnError(w0, kSendFailure)
     ELSE IF ~w0.socket_open THEN CloseOnError(w0, kSendTimeout)
     ELSE StartWrite(w0, t)

\* UdtConnection::HandleConnect(ec) at time t
HandleConnect(w, t, ec) ==
  LET w0 == [w EXCEPT !.pending_op = "none"]
  IN IF ~w0.socket_open THEN CloseOnError(w0, kSendTimeout)
     ELSE IF ec THEN CloseOnError(w0, kSendFailure)
     ELSE StartWrite(w0, t)

\* The test HandleWrite makes before reading a response.
ExpectsResponse_Always(w) == TRUE
ExpectsResponse(w) == w.timeout_for_response_ # kImmediateTimeout

\* UdtConnection::HandleWrite(ec) at time t
HandleWrite(w, t, ec) ==
  LET w0 == [w EXCEPT !.pending_op = "none"]
  IN IF ~w0.socket_open THEN CloseOnError(w0, kSendTimeout)
     ELSE IF ec THEN CloseOnError(w0, kSendFailure)
     ELSE LET w1 == [w0 EXCEPT !.obs.write_ok = Append(@, IoMark(w0))]
          IN IF ExpectsResponse(w1) THEN StartReadSize(w1, t) ELSE DoClose(w1)

\* UdtConnection::HandleReadSize(ec) at time t; a successful read has filled
\* buffer_ with the next sizeof(DataSize) bytes of the stream.
HandleReadSize(w, t, ec) ==
  LET w0 == [w EXCEPT !.pending_op = "none"]
  IN IF ~w0.socket_open THEN CloseOnError(w0, kReceiveTimeout)
     ELSE IF ec THEN CloseOnError(w0, kReceiveFailure)
     ELSE LET w1 == [w0 EXCEPT !.buffer_ = SubSeq(w0.inbound, 1, DataSizeBytes),
                               !.inbound = SubSeq(@, DataSizeBytes + 1, Len(@))]
              size == DecodeSize(w1.buffer_)
          IN StartReadData([w1 EXCEPT !.data_size_ = size,
                                      !.data_received_ = 0], t)

\* The offset in buffer_ at which StartReadData's read stores the bytes.
ReadOffset_Zero(w) == 0
ReadOffset(w) == w.data_received_

\* HandleReadData leaving the timer as the last read step set it.
HandleReadData_KeepDeadline(w, t, ec, length) ==
  LET w0 == [w EXCEPT !.pending_op = "none"]
  IN IF ~w0.socket_open THEN CloseOnError(w0, kReceiveTimeout)
     ELSE IF ec THEN CloseOnError(w0, kReceiveFailure)
     ELSE LET off == ReadOffset(w0)
              w1 == [w0 EXCEPT
                       !.buffer_ = [i \in 1 .. Len(@) |->
                                      IF i > off /\ i <= off + length
                                        THEN w0.inbound[i - off] ELSE @[i]],
                       !.inbound = SubSeq(@, length + 1, Len(@)),
                       !.data_received_ = @ + length]
          IN IF w1.data_received_ = w1.data_size_
               THEN [w1 EXCEPT !.dispatch = "posted"]
               ELSE StartReadData(w1, t)

\* HandleReadData starting the next message's read while it posts the dispatch.
HandleReadData_ReadAhead(w, t, ec, length) ==
  LET w0 == [w EXCEPT !.pending_op = "none"]
  IN IF ~w0.socket_open THEN CloseOnError(w0, kReceiveTimeout)
     ELSE IF ec THEN CloseOnError(w0, kReceiveFailure)
     ELSE LET off == ReadOffset(w0)
              w1 == [w0 EXCEPT
                       !.buffer_ = [i \in 1 .. Len(@) |->
                                      IF i > off /\ i <= off + length
                                        THEN w0.inbound[i - off] ELSE @[i]],
                       !.inbound = SubSeq(@, length + 1, Len(@)),
                       !.data_received_ = @ + length]
          IN IF w1.data_received_ = w1.data_size_
               THEN [StartReadSize(w1, t) EXCEPT !.dispatch = "posted"]
               ELSE StartReadData(w1, t)

\* UdtConnection::HandleReadData(ec, length) at time t; a successful read has
\* stored the next `length' bytes of the stream at the read offset.
HandleReadData(w, t, ec, length) ==
  LET w0 == [w EXCEPT !.pending_op = "none"]
  IN IF ~w0.socket_open THEN CloseOnError(w0, kReceiveTimeout)
     ELSE IF ec THEN CloseOnError(w0, kReceiveFailure)
     ELSE LET off == ReadOffset(w0)
              w1 == [w0 EXCEPT
                       !.buffer_ = [i \in 1 .. Len(@) |->
                                      IF i > off /\ i <= off + length
                                        THEN w0.inbound[i - off] ELSE @[i]],
                       !.inbound = SubSeq(@, length + 1, Len(@)),
                       !.data_received_ = @ + length]
          IN IF w1.data_received_ = w1.data_size_
               THEN [SetExpiry(w1, PosInfin) EXCEPT !.dispatch = "posted"]
               ELSE StartReadData(w1, t)

\* socket_.AsyncRead(buffer, 1, ...): the lengths a successful read of the
\* data buffer can report: at least one byte and at most the buffer's free
\* space; a read into an empty buffer completes at once with no bytes.
ReadLengths(w) ==
  LET space == Len(w.buffer_) - w.data_received_
  IN IF space <= 0 THEN {0} ELSE 1 .. Min(space, Len(w.inbound))

\* The functions handed to strand_.dispatch.
StrandTasks == {"DoClose", "DoStartReceiving", "DoStartSending", "StartWrite"}

\* strand_.dispatch(f): f is queued on the strand (strand[f] counts the
\* queued calls of f; the strand orders them in no particular way).
Dispatch(w, f) == [w EXCEPT !.strand[f] = @ + 1]

\* The strand's queue with one call of f taken out.
Without(q, f) == [q EXCEPT ![f] = @ - 1]

\* DispatchMessage from the handler's return on: response and
\* response_timeout are what the handler left in its out-parameters.
AfterHandler_NoReturn(w, response, response_timeout) ==
  LET w0 == [w EXCEPT !.dispatch = "none"]
      w1 == IF response = << >>
              THEN Dispatch([w0 EXCEPT !.obs.empty_response = Append(@, IoMark(w0))],
                            "DoClose")
              ELSE w0
  IN Dispatch([EncodeData(w1, response) EXCEPT
                 !.timeout_for_response_ = response_timeout],
              "StartWrite")
AfterHandler(w, response, response_timeout) ==
  LET w0 == [w EXCEPT !.dispatch = "none"]
  IN IF response = << >>
       THEN Dispatch([w0 EXCEPT !.obs.empty_response = Append(@, IoMark(w0))],
                     "DoClose")
       ELSE Dispatch([EncodeData(w0, response) EXCEPT
                        !.timeout_for_response_ = response_timeout],
                     "StartWrite")

\* ---- the owner's calls ----

\* UdtConnection::StartSending(data, timeout), called once on a client connection.
StartSending(data, timeout) ==
  /\ ~conn_assert_failed
  /\ role = "client" /\ ~started
  /\ Apply(Dispatch([EncodeData([World EXCEPT !.obs.send_data = Append(@, data)], data)
                       EXCEPT !.timeout_for_response_ = timeout,
                              !.started = TRUE],
                    "DoStartSending"))
  /\ UNCHANGED now

\* UdtConnection::StartReceiving, called once on an accepted connection.
StartReceiving ==
  /\ ~conn_assert_failed
  /\ role = "server" /\ ~started
  /\ Apply(Dispatch([World EXCEPT !.started = TRUE], "DoStartReceiving"))
  /\ UNCHANGED now

\* UdtConnection::Close, called by the owner: the transport, which reaches the
\* connection through its active set.
CloseConnection ==
  /\ ~conn_assert_failed
  /\ obs.close_calls < MaxCloseCalls
  /\ transport_alive /\ in_transport
  /\ Apply(Dispatch([World EXCEPT !.obs.close_calls = @ + 1], "DoClose"))
  /\ UNCHANGED now

\* ---- functions run by the strand ----

\* DoClose, dispatched by Close
RunDoClose ==
  /\ ~conn_assert_failed
  /\ strand["DoClose"] > 0
  /\ Apply(DoClose([World EXCEPT !.strand = Without(@, "DoClose")]))
  /\ UNCHANGED now

\* UdtConnection::DoStartReceiving
RunDoStartReceiving ==
  /\ ~conn_assert_failed
  /\ strand["DoStartReceiving"] > 0
  /\ LET w == StartReadSize([World EXCEPT !.strand = Without(@, "DoStartReceiving")],
                            now)
     IN Apply(IF w.conn_assert_failed THEN w ELSE CheckTimeout(w, now))
  /\ UNCHANGED now

\* UdtConnection::DoStartSending
RunDoStartSending ==
  /\ ~conn_assert_failed
  /\ strand["DoStartSending"] > 0
  /\ Apply(CheckTimeout(StartConnect([World EXCEPT
                                        !.strand = Without(@, "DoStartSending")],
                                     now), now))
  /\ UNCHANGED now

\* StartWrite, dispatched by DispatchMessage
RunStartWrite ==
  /\ ~conn_assert_failed
  /\ strand["StartWrite"] > 0
  /\ Apply(StartWrite([World EXCEPT !.strand = Without(@, "StartWrite")], now))
  /\ UNCHANGED now

\* CheckTimeout, run as the handler of a timer wait that expired or was cancelled.
RunCheckTimeout ==
  /\ ~conn_assert_failed
  /\ \/ /\ check_ready > 0
        /\ Apply(CheckTimeout([World EXCEPT !.check_ready = @ - 1], now))
     \/ /\ check_ready = 0
        /\ timer_waits > 0 /\ timer_expiry <= now
        /\ Apply(CheckTimeout([World EXCEPT !.timer_waits = @ - 1], now))
  /\ UNCHANGED now

\* HandleConnect, run when the connect completes
RunHandleConnect(ec) ==
  /\ ~conn_assert_failed
  /\ pending_op = "connect"
  /\ Apply(HandleConnect(World, now, ec))
  /\ UNCHANGED now

\* HandleWrite, run when the write completes
RunHandleWrite(ec) ==
  /\ ~conn_assert_failed
  /\ pending_op = "write"
  /\ Apply(HandleWrite(World, now, ec))
  /\ UNCHANGED now

\* HandleReadSize, run when the read of the length header completes: with an
\* error, or with the header's bytes once the peer has sent them.
RunHandleReadSize(ec) ==
  /\ ~conn_assert_failed
  /\ pending_op = "read_size"
  /\ (socket_open /\ ~ec) => Len(inbound) >= DataSizeBytes
  /\ Apply(HandleReadSize(World, now, ec))
  /\ UNCHANGED now

\* HandleReadData, run when a read of the payload completes.
RunHandleReadData(ec) ==
  /\ ~conn_assert_failed
  /\ pending_op = "read_data"
  /\ IF socket_open /\ ~ec
       THEN \E length \in ReadLengths(World) :
              Apply(HandleReadData(World, now, ec, length))
       ELSE Apply(HandleReadData(World, now, ec, 0))
  /\ UNCHANGED now

\* ---- DispatchMessage, posted to the io_service (outside the strand) ----

\* DispatchMessage up to the call of on_message_received; without a transport
\* it returns at once.
DispatchMessageBegin ==
  /\ ~conn_assert_failed
  /\ dispatch = "posted"
  /\ Apply(IF transport_alive
             THEN [World EXCEPT !.dispatch = "in_handler",
                                !.delivered = Append(@, buffer_)]
             ELSE [World EXCEPT !.dispatch = "none"])
  /\ UNCHANGED now

\* The handler returns; DispatchMessage closes or sends the response.
DispatchMessageEnd(response, response_timeout) ==
  /\ ~conn_assert_failed
  /\ dispatch = "in_handler"
  /\ Apply(AfterHandler(World, response, response_timeout))
  /\ UNCHANGED now

\* ---- the environment ----

\* The peer frames a payload and sends it.
PeerSend(payload) ==
  /\ ~conn_assert_failed
  /\ Len(obs.sent) < MaxFrames
  /\ inbound = << >>
  \* the peer runs the same protocol: a client's peer answers a request, a
  \* server's peer sends its request and then answers responses
  /\ Len(obs.sent) < Len(written) + (IF role = "server" THEN 1 ELSE 0)
  /\ Apply([World EXCEPT !.inbound = EncodeFrame(payload),
                         !.obs.sent = Append(@, payload)])
  /\ UNCHANGED now

\* Some function of the connection is still to run.
Running ==
  \/ ~started
  \/ pending_op # "none"
  \/ dispatch # "none"
  \/ \E f \in StrandTasks : strand[f] > 0

\* The last owner releases the transport (DispatchMessage holds it while the
\* handler runs).  Only a connection that still runs code can observe it.
TransportDestroy ==
  /\ ~conn_assert_failed
  /\ transport_alive
  /\ dispatch # "in_handler"
  /\ Running
  /\ Apply([World EXCEPT !.transport_alive = FALSE])
  /\ UNCHANGED now

\* A point in time, seen one tick later.
Earlier(t) == IF t = PosInfin THEN PosInfin ELSE Max(t - 1, now)

\* Time passes.  Only the timer reads the clock, and every deadline is set
\* relative to it, so time is let pass only while a timeout check is armed on
\* an open socket.
Tick ==
  /\ ~conn_assert_failed
  /\ socket_open /\ timer_waits + check_ready > 0
  /\ Apply([World EXCEPT !.timer_expiry = Earlier(@),
                         !.response_deadline_ = Earlier(@),
                         !.obs.stall_deadline = Earlier(@),
                         !.obs.size_deadline = Earlier(@)])
  /\ UNCHANGED now

ConnNext ==
  \/ \E data \in SendPayloads, timeout \in Timeouts :
       StartSending(data, timeout) /\ UNCHANGED <<acceptor_vars, thread_vars>>
  \/ StartReceiving /\ UNCHANGED <<acceptor_vars, thread_vars>>
  \/ CloseConnection /\ UNCHANGED <<acceptor_vars, thread_vars>>
  \/ RunDoClose /\ UNCHANGED <<acceptor_vars, thread_vars>>
  \/ RunDoStartReceiving /\ UNCHANGED <<acceptor_vars, thread_vars>>
  \/ RunDoStartSending /\ UNCHANGED <<acceptor_vars, thread_vars>>
  \/ RunStartWrite /\ UNCHANGED <<acceptor_vars, thread_vars>>
  \/ RunCheckTimeout /\ UNCHANGED <<acceptor_vars, thread_vars>>
  \/ \E ec \in BOOLEAN : RunHandleConnect(ec) /\ UNCHANGED <<acceptor_vars, thread_vars>>
  \/ \E ec \in BOOLEAN : RunHandleWrite(ec) /\ UNCHANGED <<acceptor_vars, thread_vars>>
  \/ \E ec \in BOOLEAN : RunHandleReadSize(ec) /\ UNCHANGED <<acceptor_vars, thread_vars>>
  \/ \E ec \in BOOLEAN : RunHandleReadData(ec) /\ UNCHANGED <<acceptor_vars, thread_vars>>
  \/ DispatchMessageBegin /\ UNCHANGED <<acceptor_vars, thread_vars>>
  \/ \E response \in AppPayloads, response_timeout \in Timeouts :
       DispatchMessageEnd(response, response_timeout)
       /\ UNCHANGED <<acceptor_vars, thread_vars>>
  \/ \E payload \in PeerPayloads : PeerSend(payload) /\ UNCHANGED <<acceptor_vars, thread_vars>>
  \/ TransportDestroy /\ UNCHANGED <<acceptor_vars, thread_vars>>
  \/ Tick /\ UNCHANGED <<acceptor_vars, thread_vars>>

AcceptorNext ==
  \/ \E s \in Sockets : StartAccept(s) /\ UNCHANGED <<thread_vars, conn_vars>>
  \/ \E d \in BOOLEAN, rid \in RemoteIds, ep \in Endpoints :
       HandleReceiveFrom(d, rid, ep) /\ UNCHANGED <<thread_vars, conn_vars>>
  \/ Close /\ UNCHANGED <<thread_vars, conn_vars>>

\* The acceptor's two callers, one access at a time.
ThreadNext ==
  \/ \E s \in Sockets : AcceptEnter(s) /\ UNCHANGED conn_vars
  \/ AcceptTestBacklog /\ UNCHANGED conn_vars
  \/ AcceptServe /\ UNCHANGED conn_vars
  \/ AcceptPark /\ UNCHANGED conn_vars
  \/ \E d \in BOOLEAN, rid \in RemoteIds, ep \in Endpoints :
       ReceiveEnter(d, rid, ep) /\ UNCHANGED conn_vars
  \/ ReceiveBind /\ UNCHANGED conn_vars
  \/ ReceivePush /\ UNCHANGED conn_vars

\* The acceptor alone, beside a connection that is never started.
InitServer == AcceptorInit /\ ThreadInit /\ ConnInit /\ role = "server"

SpecAcceptor == InitServer /\ [][AcceptorNext]_vars

\* The acceptor with StartAccept and HandleReceiveFrom on different threads.
SpecAcceptorThreads == InitServer /\ [][ThreadNext]_vars

\* One connection, beside an acceptor that is never used.
Init == AcceptorInit /\ ThreadInit /\ ConnInit

SpecConnection == Init /\ [][ConnNext]_vars

\* A completion handler run for an operation cancelled by the socket's close.
CancelledCompletion ==
  /\ ~socket_open
  /\ \E ec \in BOOLEAN :
       \/ RunHandleConnect(ec)
       \/ RunHandleWrite(ec)
       \/ RunHandleReadSize(ec)
       \/ RunHandleReadData(ec)
  /\ UNCHANGED <<acceptor_vars, thread_vars>>

\* The connection with its completions delivered: the io_service runs a
\* timeout check whose wait has completed (expired or cancelled), and a closed
\* socket completes the operation pending on it.
SpecConnectionFair ==
  /\ Init /\ [][ConnNext]_vars
  /\ WF_vars(RunCheckTimeout /\ UNCHANGED <<acceptor_vars, thread_vars>>)
  /\ WF_vars(CancelledCompletion)

(***************************************************************************)
(* Properties of the acceptor.                                             *)
(***************************************************************************)

\* The sockets registered with the dispatcher.
BoundSockets == {s \in Sockets : socket[s].id_ # 0}

\* C1: accept matching is strictly FIFO.  While Close has not been called and
\* no StartAccept was issued with an accept outstanding, the k-th accept to
\* complete is bound to the remote id and the remote endpoint of the k-th valid
\* handshake to arrive; no socket completes twice, the sockets bound are
\* exactly the completed ones, and the handshakes not yet served are exactly
\* the later arrivals, in order (none is served twice, none is lost).
C1_FifoMatching ==
  (~close_called /\ ~overlapping_accept) =>
    /\ Len(completed) <= Len(arrivals)
    /\ \A k \in 1 .. Len(completed) :
         /\ socket[completed[k]].remote_id_ = arrivals[k].remote_id
         /\ socket[completed[k]].remote_endpoint_ = arrivals[k].remote_endpoint
    /\ \A j, k \in 1 .. Len(completed) : j # k => completed[j] # completed[k]
    /\ BoundSockets = {completed[k] : k \in 1 .. Len(completed)}
    /\ pending_requests_ = SubSeq(arrivals, Len(completed) + 1, Len(arrivals))

\* C1 witness: three accepts completed, the first by a handshake arriving for
\* the parked socket, a later one from the backlog, with differing handshakes.
C1_Witness ==
  /\ ~close_called /\ ~overlapping_accept
  /\ Len(completed) = 3
  /\ arrival_after_accept
  /\ arrivals[1] # arrivals[2] /\ arrivals[2] # arrivals[3]

\* C2 as stated: N valid handshakes followed by M StartAccept calls, no Close:
\* N > M leaves N-M requests in the backlog, M > N leaves M-N accepts suspended.
C2_Original ==
  (~close_called /\ ~arrival_after_accept) =>
    LET N == Len(arrivals)
        M == nStartAccept
    IN /\ (N > M => Len(pending_requests_) = N - M)
       /\ (M > N => Cardinality(Suspended) = M - N)

\* C2 amended: N > M leaves exactly N-M requests in the backlog and no accept
\* suspended; M > N leaves exactly one accept suspended (the (N+1)-th, parked
\* in the waiting slot) and an empty backlog, and every StartAccept beyond the
\* (N+1)-th has tripped the assertion.
C2_Amended ==
  (~close_called /\ ~arrival_after_accept) =>
    LET N == Len(arrivals)
        M == nStartAccept
    IN /\ (N > M => Len(pending_requests_) = N - M /\ Suspended = {})
       /\ (M > N => /\ Cardinality(Suspended) = 1
                    /\ Suspended = {waiting_accept_socket_}
                    /\ pending_requests_ = << >>
                    /\ (M > N + 1 <=> acceptor_assert_failed))

\* C2 witness: two handshakes, then three accepts: one accept is suspended.
C2_Witness ==
  /\ ~close_called /\ ~arrival_after_accept
  /\ Len(arrivals) = 2 /\ nStartAccept = 3
  /\ Cardinality(Suspended) = 1

\* C3: at most one accept is outstanding.  A StartAccept issued while an
\* accept is waiting (slot occupied, backlog empty) trips the assertion; the
\* waiting slot keeps its socket, the backlog is unchanged and the call's
\* socket is neither parked nor bound.
C3_SecondAcceptRejected ==
  /\ [](Cardinality(Suspended) <= 1)
  /\ [][(/\ nStartAccept' = nStartAccept + 1
         /\ waiting_accept_socket_ # 0
         /\ pending_requests_ = << >>)
        => /\ acceptor_assert_failed'
           /\ waiting_accept_socket_' = waiting_accept_socket_
           /\ pending_requests_' = pending_requests_
           /\ accept_state' = accept_state
           /\ socket' = socket
           /\ dispatcher_sockets' = dispatcher_sockets]_acceptor_vars

\* C3 witness: the assertion fired with the first socket still parked.
C3_Witness ==
  /\ acceptor_assert_failed
  /\ waiting_accept_socket_ = 1
  /\ Suspended = {1}
  /\ pending_requests_ = << >>

\* C10: the backlog is non-empty and the waiting slot occupied never both at
\* once; a handshake is queued only when no socket is waiting, and a socket is
\* parked only when the backlog is empty.
C10_SlotBacklogExclusion ==
  /\ [](~(pending_requests_ # << >> /\ waiting_accept_socket_ # 0))
  /\ [][/\ (Len(pending_requests_') > Len(pending_requests_)
              => waiting_accept_socket_ = 0)
        /\ ((waiting_accept_socket_' # 0
             /\ waiting_accept_socket_' # waiting_accept_socket_)
              => pending_requests_ = << >>)]_acceptor_vars

\* C10 witness: a socket parked after handshakes were queued and served, with
\* Close called in between.
C10_Witness ==
  /\ waiting_accept_socket_ # 0
  /\ Len(completed) >= 1
  /\ pending_requests_ = << >>
  /\ close_called

\* C11 as stated: after Close() the backlog is empty, no accept is outstanding
\* (the suspended accept has completed cancelled and the waiting slot no longer
\* holds its socket) and the acceptor is not the registered acceptor any more.
\* A Close() step is the one that leaves the call counts as they are.
C11_Original ==
  [][(close_called' /\ UNCHANGED <<nStartAccept, arrivals, nInvalid>>)
       => /\ pending_requests_' = << >>
          /\ \A s \in Sockets : accept_state'[s] # "suspended"
          /\ waiting_accept_socket_' = 0
          /\ ~dispatcher_acceptor']_acceptor_vars

\* C12: a datagram that does not decode as a handshake leaves the acceptor as
\* it was: backlog, waiting slot, sockets, accept operations, the dispatcher's
\* table and registration, the accepts completed; nothing is reported.
C12_MalformedDiscarded ==
  [][nInvalid' # nInvalid
       => UNCHANGED <<waiting_accept_socket_, pending_requests_, socket,
                      accept_state, dispatcher_sockets, dispatcher_acceptor,
                      completed, acceptor_assert_failed, arrivals>>]_acceptor_vars

\* C12 witness: a datagram was discarded, an accept has been served and
\* another is still parked, not resumed.
C12_Witness ==
  /\ nInvalid > 0
  /\ Len(completed) >= 1
  /\ waiting_accept_socket_ # 0
  /\ accept_state[waiting_accept_socket_] = "suspended"
  /\ ~close_called

(***************************************************************************)
(* Properties of the connection.                                           *)
(***************************************************************************)

Last(s) == s[Len(s)]

\* The connection is closed: socket closed, no timeout check waiting on the
\* timer, not in the transport's active set.
ConnectionClosed ==
  /\ ~socket_open
  /\ timer_waits = 0
  /\ ~(transport_alive /\ in_transport)

\* The number of times on_error was given condition e.
Reported(e) == Cardinality({i \in 1 .. Len(errors) : errors[i] = e})

\* C4 as stated: a payload over the limit given to StartSending, or returned
\* by the handler as the response, is reported as kMessageSizeTooLarge and the
\* send is aborted: from the rejection on, no connect and no AsyncWrite is
\* issued on the socket.
C4_Original ==
  /\ transport_alive => Reported(kMessageSizeTooLarge) = Len(obs.rejected)
  /\ \A i \in 1 .. Len(obs.rejected) :
       /\ obs.connects = obs.rejected[i].connects
       /\ Len(written) = obs.rejected[i].writes

\* C5 as stated: on_error is invoked at most once in the connection's life,
\* and once it has been invoked the connection is closed and no I/O is started.
C5_Original ==
  /\ Len(errors) <= 1
  /\ errors # << >> => ConnectionClosed
  /\ \A i \in 1 .. Len(obs.on_error_marks) : IoMark(World) = obs.on_error_marks[i]

\* C6: timeout precedence.  While a read (of the length header or of the
\* payload) is outstanding, the timer's expiry is the earlier of the stall
\* deadline (time of the last read step + stall timeout) and the response
\* deadline (time the size read started + response timeout), so never later
\* than the response deadline, and on an open socket a timeout check is armed.
\* When the check closes the socket under a read, that earlier deadline has
\* been reached; and once the read's handler has run, the closure has been
\* reported (to a transport that still exists) as kReceiveTimeout and the
\* connection is closed.
C6_TimeoutPrecedence ==
  /\ pending_op \in {"read_size", "read_data"} =>
       /\ response_deadline_ = obs.size_deadline
       /\ timer_expiry = Min(obs.stall_deadline, obs.size_deadline)
       /\ timer_expiry <= response_deadline_
       /\ socket_open => timer_waits + check_ready >= 1
  /\ (/\ obs.timeout_close # << >>
      /\ Last(obs.timeout_close) \in {"read_size", "read_data"}) =>
       /\ Min(obs.stall_deadline, obs.size_deadline) <= now
       /\ ~socket_open
       /\ pending_op = "none" =>
            /\ ConnectionClosed
            /\ transport_alive => (errors # << >> /\ Last(errors) = kReceiveTimeout)

\* C6 witness: the peer stalled after the length header; the response deadline
\* was the earlier one (the stall deadline was still ahead), the check closed
\* the socket and the closure was reported as kReceiveTimeout.
C6_Witness ==
  /\ obs.timeout_close = <<"read_data">>
  /\ pending_op = "none"
  /\ data_received_ < data_size_
  /\ obs.size_deadline <= now /\ obs.stall_deadline > now
  /\ errors = <<kReceiveTimeout>>
  /\ ConnectionClosed

\* C7: no-response fast close.  Once the handler has returned with an empty
\* response, the connection's close is queued on the strand or the connection
\* is closed, and no AsyncWrite (nor any other I/O) is issued any more.
C7_NoResponseFastClose ==
  \A i \in 1 .. Len(obs.empty_response) :
    /\ IoMark(World) = obs.empty_response[i]
    /\ strand["StartWrite"] = 0
    /\ pending_op = "none"
    /\ strand["DoClose"] > 0 \/ ConnectionClosed

\* C7 witness: a server connection delivered a request, the handler returned
\* no response and the connection closed without having written.
C7_Witness ==
  /\ role = "server"
  /\ Len(obs.empty_response) = 1
  /\ Len(delivered) = 1
  /\ written = << >>
  /\ strand["DoClose"] = 0
  /\ ConnectionClosed

\* C8: no-response send.  When HandleWrite finds the write completed (socket
\* open, no error): under kImmediateTimeout the connection is closed in that
\* very step, no read is started and on_error is not invoked; under any other
\* timeout a size read is started and the connection stays open.
C8_NoResponseSend ==
  [][Len(obs'.write_ok) > Len(obs.write_ok) =>
       IF timeout_for_response_ = kImmediateTimeout
         THEN /\ ConnectionClosed'
              /\ pending_op' = "none"
              /\ obs'.reads = obs.reads
              /\ errors' = errors
         ELSE /\ pending_op' = "read_size"
              /\ obs'.reads = obs.reads + 1
              /\ socket_open'
              /\ in_transport' = in_transport
              /\ errors' = errors]_vars

\* C8 witness: a client sent its request expecting no response; the write
\* completed and the connection closed with no read and no error.
C8_Witness ==
  /\ role = "client"
  /\ Len(obs.write_ok) = 1
  /\ timeout_for_response_ = kImmediateTimeout
  /\ written = <<EncodeFrame(PayloadOfLen(kMaxTransportMessageSize))>>
  /\ obs.reads = 0
  /\ errors = << >>
  /\ ConnectionClosed

\* Sizes on which the length header is checked beside the model's payloads.
SizeSamples == {0, 1, 255, 256, 65535, 65536, 16777215, 16777216, 2147483647}

\* The value of four bytes read as a big-endian number.
BigEndian(h) == h[4] + 256 * (h[3] + 256 * (h[2] + 256 * h[1]))

\* C9: framing round trip.  EncodeData's buffer for a payload of size S within
\* the limit is the 4-byte big-endian encoding of S followed by the payload;
\* the receiver, whatever the chunks in which the stream arrives, computes
\* data_size_ = S and hands the application exactly the payload: the k-th
\* message delivered is the k-th payload the peer framed.
C9_FramingRoundTrip ==
  /\ \A n \in SizeSamples :
       /\ Len(EncodeSize(n)) = DataSizeBytes
       /\ \A i \in 1 .. DataSizeBytes : EncodeSize(n)[i] \in 0 .. 255
       /\ BigEndian(EncodeSize(n)) = n
       /\ DecodeSize(EncodeSize(n)) = n
  /\ \A p \in PeerPayloads :
       /\ Len(EncodeFrame(p)) = DataSizeBytes + Len(p)
       /\ BigEndian(SubSeq(EncodeFrame(p), 1, DataSizeBytes)) = Len(p)
       /\ SubSeq(EncodeFrame(p), DataSizeBytes + 1, Len(EncodeFrame(p))) = p
  /\ (obs.send_data # << >> /\ obs.rejected = << >> /\ written # << >>) =>
       written[1] = EncodeSize(Len(obs.send_data[1])) \o obs.send_data[1]
  /\ Len(delivered) <= Len(obs.sent)
  /\ \A k \in 1 .. Len(delivered) : delivered[k] = obs.sent[k]
  /\ dispatch = "posted" =>
       /\ data_size_ = Len(Last(obs.sent))
       /\ data_received_ = data_size_
       /\ buffer_ = Last(obs.sent)

\* C9 witness: a payload at the size limit, read in single-byte chunks, has
\* been delivered.
C9_Witness ==
  /\ role = "server"
  /\ delivered = <<PayloadOfLen(kMaxTransportMessageSize)>>
  /\ obs.reads = 1 + kMaxTransportMessageSize

\* A complete message is with the application: DispatchMessage is posted or
\* in the handler, or the response's StartWrite is queued and has not run.
Dispatching == dispatch # "none" \/ strand["StartWrite"] > 0

\* C13: no timeout during dispatch.  From the last payload byte's receipt
\* until the handler has returned and the next I/O step starts, the timer's
\* expiry is infinite, and no step taken meanwhile is a timeout check closing
\* the socket, however much time passes.
C13_NoTimeoutDuringDispatch ==
  /\ [](Dispatching => timer_expiry = PosInfin)
  /\ [][Dispatching => obs'.timeout_close = obs.timeout_close]_vars

\* C13 witness: the handler is running, both deadlines of the last read have
\* passed, the socket is open and the timeout check is waiting on the timer.
C13_Witness ==
  /\ dispatch = "in_handler"
  /\ obs.stall_deadline <= now /\ obs.size_deadline <= now
  /\ timer_expiry = PosInfin
  /\ socket_open
  /\ timer_waits = 1 /\ check_ready = 0

\* C14 as stated: the assertions socket_.IsOpen() at the start of
\* StartReadSize, StartReadData and StartWrite hold in every reachable state,
\* also when the owner's Close() runs before DoStartReceiving, or while the
\* handler runs and then returns a response.
C14_Original == ~conn_assert_failed

\* The conditions a completion handler reports for the operation op.
PhaseTimeout(op) == IF op \in {"read_size", "read_data"} THEN kReceiveTimeout
                                                         ELSE kSendTimeout
PhaseFailure(op) == IF op \in {"read_size", "read_data"} THEN kReceiveFailure
                                                         ELSE kSendFailure

\* C15: closed-socket classification.  A completion handler (the step that
\* takes the pending connect, read or write) that finds the socket closed
\* reports its phase's timeout, whatever error code the completion carries:
\* kReceiveTimeout for the reads, kSendTimeout for connect and write.  A
\* handler reports its phase's failure only with the socket still open, and
\* reports nothing else.
C15_ClosedSocketClassification ==
  [][/\ (pending_op # "none" /\ ~socket_open /\ transport_alive)
          => (pending_op' = "none"
              => errors' = Append(errors, PhaseTimeout(pending_op)))
     /\ (pending_op # "none" /\ Len(errors') > Len(errors))
          => /\ errors' = Append(errors, IF socket_open
                                           THEN PhaseFailure(pending_op)
                                           ELSE PhaseTimeout(pending_op))
             /\ pending_op' = "none"]_vars

\* C15 witness: the owner's Close() closed the socket under a pending connect
\* (no timeout check ever closed it); HandleConnect ran and reported
\* kSendTimeout.
C15_Witness ==
  /\ errors = <<kSendTimeout>>
  /\ obs.timeout_close = << >>
  /\ obs.connects = 1 /\ written = << >>
  /\ pending_op = "none"

\* The connection has started its first I/O step.
Supervised == obs.connects + obs.reads > 0

\* The current deadline has passed under a pending connect, read or write.
DeadlinePassed == socket_open /\ pending_op # "none" /\ timer_expiry <= now

C17_ChunkedReceive ==
  /\ [](/\ data_received_ <= data_size_
        /\ pending_op = "read_data" =>
             /\ Len(buffer_) - data_received_
                  = Min(kMaxTransportChunkSize, data_size_ - data_received_)
             /\ data_received_ < data_size_ \/ data_size_ = 0
        /\ dispatch = "posted" => data_received_ = data_size_
        /\ Len(delivered) + (IF dispatch = "posted" THEN 1 ELSE 0) <= Len(obs.sent))
  /\ [][/\ pending_op' = "read_data"
             => Len(buffer_') - Len(buffer_) <= kMaxTransportChunkSize
        /\ (/\ pending_op = "read_data"
            /\ pending_op' = "none" \/ obs'.reads > obs.reads
            /\ socket_open')
             => IF data_received_' = data_size_'
                  THEN dispatch' = "posted" /\ pending_op' = "none"
                       /\ obs'.reads = obs.reads
                  ELSE dispatch' = "none" /\ pending_op' = "read_data"
                       /\ obs'.reads = obs.reads + 1
        /\ (dispatch' = "posted" /\ dispatch # "posted")
             => (pending_op = "read_data" /\ pending_op' = "none"
                 /\ data_received_' = data_size_')]_vars

\* C17 witness: a payload longer than the chunk ceiling was read in two
\* chunks, the first filling the ceiling, and has been dispatched.
C17_Witness ==
  /\ data_size_ = kMaxTransportMessageSize
  /\ data_received_ = data_size_
  /\ obs.reads = 3
  /\ role = "server"
  /\ dispatch = "posted"

\* C18: dispatch and the connection's I/O do not overlap.  While the handler
\* runs no connect, read or write is pending and none of the strand's queued
\* functions that use buffer_ or timeout_for_response_ (DoStartSending,
\* DoStartReceiving, StartWrite) is waiting to run; no step taken while the
\* handler runs changes buffer_ or timeout_for_response_.  A write is started
\* only with no dispatch in progress, by a function running in the strand:
\* the queued StartWrite, or HandleConnect.
C18_DispatchIoDisjoint ==
  /\ [](dispatch = "in_handler" =>
          /\ pending_op = "none"
          /\ strand["StartWrite"] = 0
          /\ strand["DoStartSending"] = 0
          /\ strand["DoStartReceiving"] = 0)
  /\ [][/\ (dispatch = "in_handler" /\ dispatch' = "in_handler")
             => (buffer_' = buffer_
                 /\ timeout_for_response_' = timeout_for_response_
                 /\ pending_op' = "none")
        /\ Len(written') > Len(written)
             => /\ dispatch = "none"
                /\ \/ strand'["StartWrite"] = strand["StartWrite"] - 1
                   \/ pending_op = "connect"]_vars

\* C18 witness: the handler runs while a function of the strand (the timeout
\* check released by the timer's change) is about to run beside it.
C18_Witness ==
  /\ dispatch = "in_handler"
  /\ check_ready = 1
  /\ socket_open
  /\ pending_op = "none"

\* A connection left behind by a dispatch: a complete message was received,
\* DispatchMessage is over, the socket is open with an infinite timer expiry,
\* nothing is pending on the socket or queued on the strand, and the timeout
\* check, waiting on the timer, holds the connection.
LeftOpen ==
  /\ socket_open
  /\ obs.reads > 0 /\ data_received_ = data_size_
  /\ dispatch = "none"
  /\ timer_expiry = PosInfin
  /\ pending_op = "none"
  /\ \A f \in StrandTasks : strand[f] = 0
  /\ timer_waits + check_ready > 0

\* C19 as stated: a connection that has received a complete message never
\* stays open with an infinite timer expiry, no pending I/O and an armed
\* timeout check once dispatch is over, also when the transport is gone.
C19_Original == ~LeftOpen

\* C20 as stated: with StartAccept and HandleReceiveFrom interleaving access
\* by access on two threads, no state is reached in which a handshake sits in
\* the backlog while an accept is parked in the waiting slot.
C20_Original == ~(pending_requests_ # << >> /\ waiting_accept_socket_ # 0)

\* The owner's Close() has closed the socket under a pending connect, read or
\* write: the socket is closed with the operation's handler still to run, and
\* no timeout check ever closed it.
ClosedByOwner ==
  /\ obs.close_calls > 0
  /\ obs.timeout_close = << >>
  /\ ~socket_open
  /\ pending_op # "none"

\* C21 as stated: an explicit Close() by the owner while a connect, read or
\* write is pending is not reported as an error: no step taken from there,
\* the cancelled operation's handler included, invokes on_error.
C21_Original == [][ClosedByOwner => errors' = errors]_vars

=============================================================================
